---- MODULE Spec2Model ----
\* A model of the AllocatedArray class of src/array.ts: a fixed-capacity
\* numeric array with a populated-length counter.  Every method is one action;
\* the loops of the methods are recursive operators that follow the code
\* statement by statement.  A call leaves its record (name, arguments, result,
\* the array and #length it started from) in the state; the caller then takes
\* the result (Return) and makes the next call.
EXTENDS Integers, Sequences, FiniteSets, TLC

\* ---------------------------------------------------------------- bounds
\* largest size handed to the constructor
MaxSize == 3
\* pushed values range over -1..MaxVal
MaxVal == 1
\* #length is followed down to -MaxUnderflow
MaxUnderflow == 1
\* longest array handed to merge
MaxMerge == 2
\* sort returns a duration in 0..MaxDuration
MaxDuration == 1

Values == -1..MaxVal
Sizes == -1..MaxSize
\* arguments of at
Indexes == (0 - MaxSize - 1)..MaxSize
\* arguments of between and cut
Bounds == -1..MaxSize
MergeArgs == UNION {[0..(n - 1) -> Values] : n \in 0..MaxMerge}

NoError == "none"
OutOfBoundsError == "OutOfBoundsError"
InvalidRangeError == "InvalidRangeError"
SizeTooSmallError == "SizeTooSmallError"
NoValue == "none"

\* ----------------------------------------------------------------- state
VARIABLES
    constructed,  \* TRUE once `new AllocatedArray(size)` has returned
    size,         \* private size
    array,        \* private array: a function from the keys that are set
    length,       \* #length
    op,           \* the call that has just returned: its name ("none" when
                  \*   the caller is between calls),
    args,         \*   its arguments,
    ret,          \*   its return value (NoValue for void or a throw),
    err,          \*   the error it threw (NoError if none),
    writes,       \*   the keys of array it assigned,
    reads,        \*   the keys of array it read,
    steps,        \*   loop statistics of sort,
    oldArray,     \* array before the last call
    oldLength     \* #length before the last call

vars == <<constructed, size, array, length, op, args, ret, err, writes, reads,
          steps, oldArray, oldLength>>

EmptyArray == [i \in {} |-> 0]
NoSteps == [passes |-> 0, comps |-> 0, swaps |-> 0]

\* array[i] = v in JavaScript: any key may be assigned, the key is created
Set(a, i, v) == [k \in (DOMAIN a) \cup {i} |-> IF k = i THEN v ELSE a[k]]

\* the caller is between two calls
Idle == op = "none"

\* the record of a call, kept until the caller has looked at the result
Finish(o, as, r, e, w, rd, st) ==
    /\ op' = o
    /\ args' = as
    /\ ret' = r
    /\ err' = e
    /\ writes' = w
    /\ reads' = rd
    /\ steps' = st
    /\ oldArray' = array
    /\ oldLength' = length

Init ==
    /\ constructed = FALSE
    /\ size = 0
    /\ array = EmptyArray
    /\ length = 0
    /\ op = "none"
    /\ args = <<>>
    /\ ret = NoValue
    /\ err = NoError
    /\ writes = {}
    /\ reads = {}
    /\ steps = NoSteps
    /\ oldArray = EmptyArray
    /\ oldLength = 0

\* ----------------------------------------------------------- constructor
\* a floor that is off by one: capacity 1 is accepted
SizeTooSmallOffByOne(s) == s < 1

SizeTooSmall(s) == s <= 1

RECURSIVE ZeroFill(_, _, _)
ZeroFill(a, i, s) == IF i < s THEN ZeroFill(Set(a, i, 0), i + 1, s) ELSE a

Construct(s) ==
    /\ Idle
    /\ ~constructed
    /\ IF SizeTooSmall(s)
         THEN /\ UNCHANGED <<constructed, size, array, length>>
              /\ Finish("constructor", <<s>>, NoValue, SizeTooSmallError, {}, {}, NoSteps)
         ELSE /\ constructed' = TRUE
              /\ size' = s
              /\ array' = ZeroFill(EmptyArray, 0, s)
              /\ length' = 0
              /\ Finish("constructor", <<s>>, NoValue, NoError, 0..(s - 1), {}, NoSteps)

\* ----------------------------------------------------------------getters
isEmpty(len) == len <= 0
containsOne(len) == len = 1

\* ------------------------------------------------------------------ push
\* the check of Vector.push, which reserves one slot
PushFullReserving(len, sz) == len + 1 >= sz

\* a check that lets one push too many through
PushFullLate(len, sz) == len > sz

PushFull(len, sz) == len + 1 > sz

Push(num) ==
    /\ Idle
    /\ constructed
    /\ IF PushFull(length, size)
         THEN /\ UNCHANGED <<constructed, size, array, length>>
              /\ Finish("push", <<num>>, NoValue, OutOfBoundsError, {}, {}, NoSteps)
         ELSE /\ array' = Set(array, length, num)
              /\ length' = length + 1
              /\ UNCHANGED <<constructed, size>>
              /\ Finish("push", <<num>>, NoValue, NoError, {length}, {}, NoSteps)

\* ------------------------------------------------------------------- pop
\* pop that returns the length before the decrement, as popHead does
popReturningOld(a, len) ==
    IF isEmpty(len)
      THEN [arr |-> a, len |-> len, ret |-> -1, w |-> {}]
      ELSE [arr |-> Set(a, len - 1, 0), len |-> len - 1, ret |-> len,
            w |-> {len - 1}]

\* pop whose empty case returns 0, as Vector.pop does
popEmptyZero(a, len) ==
    IF isEmpty(len)
      THEN [arr |-> a, len |-> len, ret |-> 0, w |-> {}]
      ELSE [arr |-> Set(a, len - 1, 0), len |-> len - 1, ret |-> len - 1,
            w |-> {len - 1}]

\* pop on array a with #length len: the array and length it leaves, the
\* value it returns and the keys it writes
pop(a, len) ==
    IF isEmpty(len)
      THEN [arr |-> a, len |-> len, ret |-> -1, w |-> {}]
      ELSE [arr |-> Set(a, len - 1, 0), len |-> len - 1, ret |-> len - 1,
            w |-> {len - 1}]

Pop ==
    /\ Idle
    /\ constructed
    /\ LET res == pop(array, length) IN
       /\ array' = res.arr
       /\ length' = res.len
       /\ UNCHANGED <<constructed, size>>
       /\ Finish("pop", <<>>, res.ret, NoError, res.w, {}, NoSteps)

\* -------------------------------------------------------------------- at
\* the resolution of Vector.at, which subtracts the negative index
AtResolveSubtracting(index, len) == IF index < 0 THEN len - index ELSE index

AtResolve(index, len) == IF index < 0 THEN len + index ELSE index
AtOutOfBounds(index, len) == index < 0 \/ index >= len

\* at(index) on array a with #length len: the error it throws or the value
\* it returns, and the key it reads
at(a, len, index) ==
    LET i == AtResolve(index, len) IN
    IF AtOutOfBounds(i, len)
      THEN [err |-> OutOfBoundsError, ret |-> NoValue, r |-> {}]
      ELSE [err |-> NoError, ret |-> a[i], r |-> {i}]

At(index) ==
    /\ Idle
    /\ constructed
    /\ UNCHANGED <<constructed, size, array, length>>
    /\ LET res == at(array, length, index) IN
       Finish("at", <<index>>, res.ret, res.err, {}, res.r, NoSteps)

\* --------------------------------------------------------------- popHead
\* a shift loop that stops one element early
RECURSIVE PopHeadLoopShort(_, _, _)
PopHeadLoopShort(st, i, len) ==
    IF i < len
      THEN LET j == i + 1 IN
           IF j >= len - 1
             THEN st
             ELSE PopHeadLoopShort([arr |-> Set(Set(st.arr, i, st.arr[j]), j, 0),
                                    w |-> st.w \cup {i, j},
                                    r |-> st.r \cup {j}], i + 1, len)
      ELSE st

\* the loop of popHead from index i on: [arr, w, r] are the array and the
\* keys written and read so far
RECURSIVE PopHeadLoop(_, _, _)
PopHeadLoop(st, i, len) ==
    IF i < len
      THEN LET j == i + 1 IN
           IF j >= len
             THEN st
             ELSE PopHeadLoop([arr |-> Set(Set(st.arr, i, st.arr[j]), j, 0),
                               w |-> st.w \cup {i, j},
                               r |-> st.r \cup {j}], i + 1, len)
      ELSE st

\* popHead on array a with #length len; `return this.#length--` returns the
\* length before the decrement
popHead(a, len) ==
    LET st == PopHeadLoop([arr |-> a, w |-> {}, r |-> {}], 0, len) IN
    [arr |-> st.arr, len |-> len - 1, ret |-> len, w |-> st.w, r |-> st.r]

PopHead ==
    /\ Idle
    /\ constructed
    /\ length - 1 >= 0 - MaxUnderflow
    /\ LET res == popHead(array, length) IN
       /\ array' = res.arr
       /\ length' = res.len
       /\ UNCHANGED <<constructed, size>>
       /\ Finish("popHead", <<>>, res.ret, NoError, res.w, res.r, NoSteps)

\* ----------------------------------------------------------------- clear
RECURSIVE ClearLoop(_, _, _)
ClearLoop(a, i, len) == IF i < len THEN ClearLoop(Set(a, i, 0), i + 1, len) ELSE a

Clear ==
    /\ Idle
    /\ constructed
    /\ array' = ClearLoop(array, 0, length)
    /\ length' = 0
    /\ UNCHANGED <<constructed, size>>
    /\ Finish("clear", <<>>, NoValue, NoError, 0..(length - 1), {}, NoSteps)

\* ------------------------------------------------------- min / max / sum
\* the scan loops of min, max and sum from index i on, acc the running result
\* a minimum scan with the comparison turned round
RECURSIVE MinLoopGreater(_, _, _, _)
MinLoopGreater(a, acc, i, len) ==
    IF i < len
      THEN MinLoopGreater(a, IF a[i] > acc THEN a[i] ELSE acc, i + 1, len)
      ELSE acc

RECURSIVE MinLoop(_, _, _, _)
MinLoop(a, acc, i, len) ==
    IF i < len
      THEN MinLoop(a, IF a[i] < acc THEN a[i] ELSE acc, i + 1, len)
      ELSE acc

RECURSIVE MaxLoop(_, _, _, _)
MaxLoop(a, acc, i, len) ==
    IF i < len
      THEN MaxLoop(a, IF a[i] > acc THEN a[i] ELSE acc, i + 1, len)
      ELSE acc

RECURSIVE SumLoop(_, _, _, _)
SumLoop(a, acc, i, len) ==
    IF i < len THEN SumLoop(a, acc + a[i], i + 1, len) ELSE acc

min(a, len) ==
    IF isEmpty(len) THEN 0
    ELSE IF containsOne(len) THEN a[0]
    ELSE MinLoop(a, a[0], 0, len)

max(a, len) ==
    IF isEmpty(len) THEN 0
    ELSE IF containsOne(len) THEN a[0]
    ELSE MaxLoop(a, a[0], 0, len)

sum(a, len) ==
    IF isEmpty(len) THEN 0
    ELSE IF containsOne(len) THEN a[0]
    ELSE SumLoop(a, 0, 0, len)

\* the keys min, max and sum read
ScanReads(len) ==
    IF isEmpty(len) THEN {} ELSE IF containsOne(len) THEN {0} ELSE 0..(len - 1)

\* mean without the guard for #length = 0, as Vector.mean has it
meanUnguarded(a, len) == [num |-> sum(a, len), den |-> len]

\* mean returns the quotient sum / #length, kept as numerator and denominator
mean(a, len) ==
    IF len = 0 THEN [num |-> 0, den |-> 1] ELSE [num |-> sum(a, len), den |-> len]

Min ==
    /\ Idle
    /\ constructed
    /\ UNCHANGED <<constructed, size, array, length>>
    /\ Finish("min", <<>>, min(array, length), NoError, {}, ScanReads(length), NoSteps)

Max ==
    /\ Idle
    /\ constructed
    /\ UNCHANGED <<constructed, size, array, length>>
    /\ Finish("max", <<>>, max(array, length), NoError, {}, ScanReads(length), NoSteps)

Sum ==
    /\ Idle
    /\ constructed
    /\ UNCHANGED <<constructed, size, array, length>>
    /\ Finish("sum", <<>>, sum(array, length), NoError, {}, ScanReads(length), NoSteps)

Mean ==
    /\ Idle
    /\ constructed
    /\ UNCHANGED <<constructed, size, array, length>>
    /\ Finish("mean", <<>>, mean(array, length), NoError, {},
              IF length = 0 THEN {} ELSE ScanReads(length), NoSteps)

\* ------------------------------------------------------------------ sort
\* an inner loop whose bound is one too small: the last pair of a pass is
\* never compared
RECURSIVE SortInnerShort(_, _, _, _)
SortInnerShort(st, i, j, len) ==
    IF j < len - 2 - i
      THEN LET cmp == st.arr[j] > st.arr[j + 1]
               nxt == [arr |-> IF cmp
                                 THEN Set(Set(st.arr, j, st.arr[j + 1]), j + 1, st.arr[j])
                                 ELSE st.arr,
                       swapped |-> st.swapped \/ cmp,
                       w |-> IF cmp THEN st.w \cup {j, j + 1} ELSE st.w,
                       r |-> st.r \cup {j, j + 1},
                       passes |-> st.passes,
                       comps |-> st.comps + 1,
                       swaps |-> IF cmp THEN st.swaps + 1 ELSE st.swaps]
           IN SortInnerShort(nxt, i, j + 1, len)
      ELSE st

\* an inner loop that swaps without the temporary: the left value is lost
RECURSIVE SortInnerNoTmp(_, _, _, _)
SortInnerNoTmp(st, i, j, len) ==
    IF j < len - 1 - i
      THEN LET cmp == st.arr[j] > st.arr[j + 1]
               nxt == [arr |-> IF cmp
                                 THEN Set(Set(st.arr, j, st.arr[j + 1]), j + 1, st.arr[j + 1])
                                 ELSE st.arr,
                       swapped |-> st.swapped \/ cmp,
                       w |-> IF cmp THEN st.w \cup {j, j + 1} ELSE st.w,
                       r |-> st.r \cup {j, j + 1},
                       passes |-> st.passes,
                       comps |-> st.comps + 1,
                       swaps |-> IF cmp THEN st.swaps + 1 ELSE st.swaps]
           IN SortInnerNoTmp(nxt, i, j + 1, len)
      ELSE st

\* the inner loop of pass i from index j on; st carries the array, the swapped
\* flag, the keys written and read, and the comparison and swap counts
RECURSIVE SortInner(_, _, _, _)
SortInner(st, i, j, len) ==
    IF j < len - 1 - i
      THEN LET cmp == st.arr[j] > st.arr[j + 1]
               nxt == [arr |-> IF cmp
                                 THEN Set(Set(st.arr, j, st.arr[j + 1]), j + 1, st.arr[j])
                                 ELSE st.arr,
                       swapped |-> st.swapped \/ cmp,
                       w |-> IF cmp THEN st.w \cup {j, j + 1} ELSE st.w,
                       r |-> st.r \cup {j, j + 1},
                       passes |-> st.passes,
                       comps |-> st.comps + 1,
                       swaps |-> IF cmp THEN st.swaps + 1 ELSE st.swaps]
           IN SortInner(nxt, i, j + 1, len)
      ELSE st

\* an outer loop without the early exit: it always makes #length - 1 passes
RECURSIVE SortOuterNoBreak(_, _, _)
SortOuterNoBreak(st, i, len) ==
    IF i < len - 1
      THEN LET done == SortInner([st EXCEPT !.swapped = FALSE,
                                           !.passes = st.passes + 1], i, 0, len)
           IN SortOuterNoBreak(done, i + 1, len)
      ELSE st

\* the outer loop from pass i on
RECURSIVE SortOuter(_, _, _)
SortOuter(st, i, len) ==
    IF i < len - 1
      THEN LET done == SortInner([st EXCEPT !.swapped = FALSE,
                                           !.passes = st.passes + 1], i, 0, len)
           IN IF ~done.swapped THEN done ELSE SortOuter(done, i + 1, len)
      ELSE st

SortRun(a, len) ==
    SortOuter([arr |-> a, swapped |-> FALSE, w |-> {}, r |-> {},
               passes |-> 0, comps |-> 0, swaps |-> 0], 0, len)

Sort ==
    /\ Idle
    /\ constructed
    /\ UNCHANGED <<constructed, size, length>>
    /\ IF isEmpty(length) \/ containsOne(length)
         THEN /\ array' = array
              /\ Finish("sort", <<>>, 0, NoError, {}, {}, NoSteps)
         ELSE LET st == SortRun(array, length) IN
              /\ array' = st.arr
              /\ \E d \in 0..MaxDuration :
                    Finish("sort", <<>>, d, NoError, st.w, st.r,
                           [passes |-> st.passes, comps |-> st.comps, swaps |-> st.swaps])

\* --------------------------------------------------------------- between
\* a bounds check that lets an inverted range through to the range check
BetweenOutOfBoundsAfterRange(start, end, len) ==
    (start < 0 \/ end > len - 1) /\ ~(start > end)

\* a bounds check whose end bound is one too large
BetweenOutOfBoundsOffByOne(start, end, len) == start < 0 \/ end > len

BetweenOutOfBounds(start, end, len) == start < 0 \/ end > len - 1
BetweenInvalidRange(start, end) == start > end

\* a copy loop that treats end as exclusive
RECURSIVE BetweenLoopExclusive(_, _, _, _, _, _)
BetweenLoopExclusive(a, st, i, start, end, len) ==
    IF i < len
      THEN BetweenLoopExclusive(a,
                       IF i >= start /\ i < end
                         THEN [out |-> Set(st.out, i - start, a[i]), r |-> st.r \cup {i}]
                         ELSE st,
                       i + 1, start, end, len)
      ELSE st

\* the copy loop from index i on; st.out is the array being returned
RECURSIVE BetweenLoop(_, _, _, _, _, _)
BetweenLoop(a, st, i, start, end, len) ==
    IF i < len
      THEN BetweenLoop(a,
                       IF i >= start /\ i <= end
                         THEN [out |-> Set(st.out, i - start, a[i]), r |-> st.r \cup {i}]
                         ELSE st,
                       i + 1, start, end, len)
      ELSE st

Between(start, end) ==
    /\ Idle
    /\ constructed
    /\ UNCHANGED <<constructed, size, array, length>>
    /\ IF BetweenOutOfBounds(start, end, length)
         THEN Finish("between", <<start, end>>, NoValue, OutOfBoundsError, {}, {}, NoSteps)
         ELSE IF BetweenInvalidRange(start, end)
         THEN Finish("between", <<start, end>>, NoValue, InvalidRangeError, {}, {}, NoSteps)
         ELSE LET st == BetweenLoop(array, [out |-> EmptyArray, r |-> {}],
                                    0, start, end, length)
              IN Finish("between", <<start, end>>, st.out, NoError, {}, st.r, NoSteps)

\* ------------------------------------------------------------------- cut
\* a bounds check that forgets the lower bound
CutOutOfBoundsUpperOnly(from, to, len) == to > len - 1

CutOutOfBounds(from, to, len) == from < 0 \/ to > len - 1
CutInvalidRange(from, to) == from > to
CutSelects(i, from, to) == i >= from \/ i <= to

\* the loop of cut from index i on; len is the length saved before the loop
RECURSIVE CutLoop(_, _, _, _, _)
CutLoop(st, i, from, to, len) ==
    IF i < len
      THEN CutLoop(IF CutSelects(i, from, to)
                     THEN [arr |-> Set(st.arr, i, 0), len |-> st.len - 1,
                           w |-> st.w \cup {i}]
                     ELSE st,
                   i + 1, from, to, len)
      ELSE st

Cut(from, to) ==
    /\ Idle
    /\ constructed
    /\ IF CutOutOfBounds(from, to, length)
         THEN /\ UNCHANGED <<constructed, size, array, length>>
              /\ Finish("cut", <<from, to>>, NoValue, OutOfBoundsError, {}, {}, NoSteps)
         ELSE IF CutInvalidRange(from, to)
         THEN /\ UNCHANGED <<constructed, size, array, length>>
              /\ Finish("cut", <<from, to>>, NoValue, InvalidRangeError, {}, {}, NoSteps)
         ELSE LET st == CutLoop([arr |-> array, len |-> length, w |-> {}],
                                0, from, to, length)
              IN /\ array' = st.arr
                 /\ length' = st.len
                 /\ UNCHANGED <<constructed, size>>
                 /\ Finish("cut", <<from, to>>, st.len, NoError, st.w, {}, NoSteps)

\* --------------------------------------------------------------- reverse
\* half of the last index instead of half of the length
HalfOfLast(len) == (len - 1) \div 2

Half(len) == len \div 2

\* a swap loop without the temporary: both slots end with the right value
RECURSIVE ReverseLoopNoTmp(_, _, _, _)
ReverseLoopNoTmp(a, i, half, len) ==
    IF i < half
      THEN LET reverseIndx == len - 1 - i
           IN ReverseLoopNoTmp(Set(Set(a, i, a[reverseIndx]), reverseIndx, a[reverseIndx]),
                               i + 1, half, len)
      ELSE a

RECURSIVE ReverseLoop(_, _, _, _)
ReverseLoop(a, i, half, len) ==
    IF i < half
      THEN LET reverseIndx == len - 1 - i
           IN ReverseLoop(Set(Set(a, i, a[reverseIndx]), reverseIndx, a[i]),
                          i + 1, half, len)
      ELSE a

\* the keys reverse reads and writes
ReverseKeys(len) ==
    {i \in 0..(Half(len) - 1) : TRUE} \cup {len - 1 - i : i \in 0..(Half(len) - 1)}

\* the array reverse leaves behind
reverse(a, len) ==
    IF isEmpty(len) \/ containsOne(len) THEN a
    ELSE ReverseLoop(a, 0, Half(len), len)

Reverse ==
    /\ Idle
    /\ constructed
    /\ UNCHANGED <<constructed, size, length>>
    /\ array' = reverse(array, length)
    /\ Finish("reverse", <<>>, NoValue, NoError,
              IF isEmpty(length) \/ containsOne(length) THEN {} ELSE ReverseKeys(length),
              IF isEmpty(length) \/ containsOne(length) THEN {} ELSE ReverseKeys(length),
              NoSteps)

\* ----------------------------------------------------------------- merge
\* the capacity check with one slot reserved, as Vector.push has it
MergeTooLongReserving(n, len, sz) == n + len >= sz

\* no capacity check before the push loop
MergeTooLongNever(n, len, sz) == FALSE

\* a capacity check that lets one element too many through
MergeTooLongLate(n, len, sz) == n + len > sz + 1

MergeTooLong(n, len, sz) == n + len > sz

\* the push loop of merge from element k of arr on; a push that throws ends it
RECURSIVE MergeLoop(_, _, _, _)
MergeLoop(st, arr, k, sz) ==
    IF k < Cardinality(DOMAIN arr) /\ st.err = NoError
      THEN MergeLoop(IF PushFull(st.len, sz)
                       THEN [st EXCEPT !.err = OutOfBoundsError]
                       ELSE [arr |-> Set(st.arr, st.len, arr[k]),
                             len |-> st.len + 1,
                             w |-> st.w \cup {st.len},
                             err |-> NoError],
                     arr, k + 1, sz)
      ELSE st

Merge(arr) ==
    /\ Idle
    /\ constructed
    /\ IF MergeTooLong(Cardinality(DOMAIN arr), length, size)
         THEN /\ UNCHANGED <<constructed, size, array, length>>
              /\ Finish("merge", <<arr>>, NoValue, OutOfBoundsError, {}, {}, NoSteps)
         ELSE LET st == MergeLoop([arr |-> array, len |-> length, w |-> {},
                                   err |-> NoError], arr, 0, size)
              IN /\ array' = st.arr
                 /\ length' = st.len
                 /\ UNCHANGED <<constructed, size>>
                 /\ Finish("merge", <<arr>>,
                           IF st.err = NoError THEN st.len ELSE NoValue,
                           st.err, st.w, {}, NoSteps)

\* the caller has looked at the result of the call and goes on to the next one
Return ==
    /\ ~Idle
    /\ UNCHANGED <<constructed, size, array, length>>
    /\ Finish("none", <<>>, NoValue, NoError, {}, {}, NoSteps)

Next ==
    \/ \E s \in Sizes : Construct(s)
    \/ \E num \in Values : Push(num)
    \/ Pop
    \/ \E index \in Indexes : At(index)
    \/ PopHead
    \/ Clear
    \/ Min
    \/ Max
    \/ Sum
    \/ Mean
    \/ Sort
    \/ \E start, end \in Bounds : Between(start, end)
    \/ \E from, to \in Bounds : Cut(from, to)
    \/ Reverse
    \/ \E arr \in MergeArgs : Merge(arr)
    \/ Return

Spec == Init /\ [][Next]_vars

\* ================================================================ claims
\* the populated elements of array a with #length len are pairwise distinct
Distinct(a, len) == \A i, j \in 0..(len - 1) : i # j => a[i] # a[j]
\* at(index) on array a with #length len returns v
AtReturns(a, len, index, v) ==
    at(a, len, index).err = NoError /\ at(a, len, index).ret = v
\* arrays a and b agree on every key except those in ks
SameExcept(a, b, ks) ==
    /\ DOMAIN a \ ks = DOMAIN b \ ks
    /\ \A k \in DOMAIN a \ ks : a[k] = b[k]

\* C1: after any sequence of operations on a constructed array,
\* 0 <= #length <= size.
C1_LengthWithinCapacity == constructed => 0 <= length /\ length <= size

\* C2: every key an operation writes lies in [0, size) and every key it
\* reads lies in [0, #length) of the array it was called on.
C2_AccessWithinBounds ==
    constructed =>
        /\ \A k \in writes : 0 <= k /\ k < size
        /\ \A k \in reads : 0 <= k /\ k < oldLength

C4_PushAppends ==
    op = "push" /\ err = NoError =>
        /\ array[oldLength] = args[1]
        /\ length = oldLength + 1
        /\ SameExcept(array, oldArray, {oldLength})
        /\ AtReturns(array, length, length - 1, args[1])
        /\ AtReturns(array, length, -1, args[1])

\* C5: the constructor throws SizeTooSmallError for size <= 1; for size >= 2
\* it succeeds with #length 0, isEmpty, and size slots all 0.
C5_Constructor ==
    op = "constructor" =>
        /\ args[1] <= 1 => err = SizeTooSmallError /\ ~constructed
        /\ args[1] >= 2 =>
              /\ err = NoError /\ constructed
              /\ size = args[1]
              /\ length = 0 /\ isEmpty(length)
              /\ DOMAIN array = 0..(size - 1)
              /\ \A i \in 0..(size - 1) : array[i] = 0

C5_Witness == op = "constructor" /\ constructed /\ size = 2 /\ DOMAIN array = {0, 1}

\* C6: pop on a non-empty array subtracts 1 from #length, sets the vacated
\* slot to 0, returns the new #length and leaves the slots below it alone.
C6_PopNonEmpty ==
    op = "pop" /\ oldLength >= 1 =>
        /\ err = NoError
        /\ length = oldLength - 1
        /\ array[oldLength - 1] = 0
        /\ ret = length
        /\ \A i \in 0..(length - 1) : AtReturns(array, length, i, oldArray[i])
        /\ SameExcept(array, oldArray, {oldLength - 1})

C6_Witness ==
    /\ op = "pop" /\ oldLength = 3 /\ length = 2 /\ ret = 2
    /\ Distinct(oldArray, oldLength) /\ oldArray[2] # 0
    /\ AtReturns(array, length, 1, oldArray[1])

\* C7: pop on an empty array returns -1, throws nothing and changes nothing;
\* pop returns -1 only when the array held no element.
C7_PopEmpty ==
    op = "pop" =>
        /\ oldLength <= 0 =>
              ret = -1 /\ err = NoError /\ array = oldArray /\ length = oldLength
        /\ ret = -1 => oldLength <= 0

C7_Witness == op = "pop" /\ oldLength = 0 /\ ret = -1 /\ length = 0

\* C8: popHead on an empty array returns -1 and changes neither the array
\* nor #length, which stays 0.
C8_PopHeadEmpty ==
    op = "popHead" /\ oldLength = 0 =>
        ret = -1 /\ length = 0 /\ array = oldArray

\* C9: popHead on an array of #length n >= 1 leaves #length n - 1 and, for
\* every i in [0, n - 1), at(i) is the value that was at i + 1.
C9_PopHeadShifts ==
    op = "popHead" /\ oldLength >= 1 =>
        /\ length = oldLength - 1
        /\ \A i \in 0..(oldLength - 2) :
              AtReturns(array, length, i, oldArray[i + 1])

C9_Witness ==
    /\ op = "popHead" /\ oldLength = 3 /\ length = 2
    /\ Distinct(oldArray, oldLength)
    /\ array[0] = oldArray[1] /\ array[1] = oldArray[2]

\* C10: at(index) resolves a negative index as #length + index, throws
\* OutOfBoundsError exactly when the resolved index is < 0 or >= #length, and
\* otherwise returns the value at the resolved index; it changes nothing.
C10_At ==
    op = "at" =>
        LET i == IF args[1] < 0 THEN oldLength + args[1] ELSE args[1] IN
        /\ array = oldArray /\ length = oldLength
        /\ err \in {NoError, OutOfBoundsError}
        /\ err = OutOfBoundsError <=> (i < 0 \/ i >= oldLength)
        /\ err = NoError => ret = oldArray[i]
        /\ oldLength = 3 /\ args[1] = -1 => err = NoError /\ ret = oldArray[2]
        /\ oldLength = 3 /\ args[1] = -3 => err = NoError /\ ret = oldArray[0]
        /\ oldLength = 3 /\ args[1] \in {-4, 3} => err = OutOfBoundsError
        /\ oldLength = 0 /\ args[1] = 0 => err = OutOfBoundsError

C10_Witness ==
    /\ op = "at" /\ args[1] = -1 /\ oldLength = 3 /\ err = NoError
    /\ Distinct(array, length) /\ ret = array[2]

\* the number of elements of a JavaScript array with keys 0..n-1
Count(a) == Cardinality(DOMAIN a)

\* C11: for 0 <= start <= end <= #length - 1, between(start, end) returns a
\* new array of exactly end - start + 1 elements whose k-th element is
\* at(start + k), and changes neither the array nor #length.
C11_BetweenCopies ==
    op = "between" /\ 0 <= args[1] /\ args[1] <= args[2] /\ args[2] <= oldLength - 1 =>
        /\ err = NoError
        /\ DOMAIN ret = 0..(args[2] - args[1])
        /\ Count(ret) = args[2] - args[1] + 1
        /\ \A k \in 0..(args[2] - args[1]) :
              AtReturns(oldArray, oldLength, args[1] + k, ret[k])
        /\ array = oldArray /\ length = oldLength

C11_Witness ==
    /\ op = "between" /\ args = <<1, 2>> /\ oldLength = 3 /\ err = NoError
    /\ Distinct(array, length)
    /\ ret = [k \in 0..1 |-> array[k + 1]]

\* C12: between throws OutOfBoundsError if start < 0 or end > #length - 1,
\* and InvalidRangeError if start > end while neither bound is out of range;
\* a call that is both out of bounds and inverted throws OutOfBoundsError.
C12_BetweenErrors ==
    op = "between" =>
        /\ (args[1] < 0 \/ args[2] > oldLength - 1) => err = OutOfBoundsError
        /\ (args[1] >= 0 /\ args[2] <= oldLength - 1 /\ args[1] > args[2]) =>
              err = InvalidRangeError
        /\ oldLength = 3 /\ args = <<2, 1>> => err = InvalidRangeError
        /\ oldLength = 3 /\ args \in {<<-1, 2>>, <<2, 3>>, <<3, 3>>} =>
              err = OutOfBoundsError

C12_Witness ==
    /\ op = "between" /\ oldLength = 1 /\ args = <<3, 2>>
    /\ err = OutOfBoundsError

\* C13 as stated: on an empty array between throws OutOfBoundsError for
\* every pair of arguments, a negative end included.
C13_BetweenEmptyAlwaysOutOfBounds ==
    op = "between" /\ oldLength = 0 => err = OutOfBoundsError

\* C13 as amended: on an empty array between never returns a result; it
\* throws OutOfBoundsError when start < 0 or end >= 0, and InvalidRangeError
\* when start >= 0 and end < 0.
C13_BetweenEmpty ==
    op = "between" /\ oldLength = 0 =>
        /\ err \in {OutOfBoundsError, InvalidRangeError}
        /\ ret = NoValue
        /\ (args[1] < 0 \/ args[2] >= 0) => err = OutOfBoundsError
        /\ (args[1] >= 0 /\ args[2] < 0) => err = InvalidRangeError

C13_Witness ==
    op = "between" /\ oldLength = 0 /\ args = <<0, -1>> /\ err = InvalidRangeError

\* C14: for 0 <= from < to <= #length, cut(from, to) removes exactly the
\* half-open range [from, to): the elements below from stay, every element at
\* j >= to moves to j - (to - from), #length drops by to - from, the vacated
\* tail slots are 0 and the new #length is returned.
C14_CutHalfOpen ==
    op = "cut" /\ 0 <= args[1] /\ args[1] < args[2] /\ args[2] <= oldLength =>
        LET n == args[2] - args[1] IN
        /\ err = NoError
        /\ length = oldLength - n
        /\ ret = length
        /\ \A i \in 0..(args[1] - 1) : array[i] = oldArray[i]
        /\ \A j \in args[2]..(oldLength - 1) : array[j - n] = oldArray[j]
        /\ \A i \in length..(oldLength - 1) : array[i] = 0

\* C15: cut(from, to) with from >= to and both bounds in range throws
\* InvalidRangeError and changes nothing, from = to included.
C15_CutInvalidRange ==
    op = "cut" /\ args[1] >= args[2] /\ args[1] >= 0 /\ args[2] <= oldLength =>
        err = InvalidRangeError /\ array = oldArray /\ length = oldLength

\* C16: cut(from, to) throws OutOfBoundsError whenever from < 0 or
\* to > #length, and then changes neither the array nor #length.
C16_CutOutOfBounds ==
    op = "cut" /\ (args[1] < 0 \/ args[2] > oldLength) =>
        err = OutOfBoundsError /\ array = oldArray /\ length = oldLength

C16_Witness ==
    /\ op = "cut" /\ args = <<-1, 1>> /\ oldLength = 3 /\ err = OutOfBoundsError
    /\ Distinct(array, length)

\* pushing elements k.. of arr one after the other onto [arr, len]
RECURSIVE PushEach(_, _, _)
PushEach(st, arr, k) ==
    IF k < Count(arr)
      THEN PushEach([arr |-> Set(st.arr, st.len, arr[k]), len |-> st.len + 1], arr, k + 1)
      ELSE st

\* C17: when the argument's length + #length <= size, merge succeeds, leaves
\* the state that pushing each element in order leaves (former elements
\* unchanged, new ones appended in order) and returns the new #length.
C17_MergeAppends ==
    op = "merge" /\ Count(args[1]) + oldLength <= size =>
        LET n == Count(args[1]) IN
        /\ err = NoError
        /\ length = oldLength + n
        /\ ret = length
        /\ \A k \in 0..(n - 1) : array[oldLength + k] = args[1][k]
        /\ SameExcept(array, oldArray, oldLength..(oldLength + n - 1))
        /\ [arr |-> array, len |-> length]
              = PushEach([arr |-> oldArray, len |-> oldLength], args[1], 0)

C17_Witness ==
    /\ op = "merge" /\ oldLength = 1 /\ Count(args[1]) = 2 /\ size = 3
    /\ err = NoError /\ ret = 3
    /\ Distinct(array, length)

\* C18: merge with the argument's length + #length > size throws
\* OutOfBoundsError before anything is appended: the array and #length are
\* what they were.
C18_MergeOverflow ==
    op = "merge" /\ Count(args[1]) + oldLength > size =>
        err = OutOfBoundsError /\ array = oldArray /\ length = oldLength

C18_Witness ==
    /\ op = "merge" /\ oldLength = 2 /\ Count(args[1]) = 2 /\ size = 3
    /\ err = OutOfBoundsError /\ array[2] = 0

\* C19: a call that ends in a thrown error leaves the array and #length as
\* they were before the call.
C19_ErrorsMutateNothing ==
    err # NoError => array = oldArray /\ length = oldLength

C19_Witness ==
    /\ op = "cut" /\ err = InvalidRangeError /\ length = 3
    /\ Distinct(array, length)

\* C20: after sort the populated prefix is non-decreasing, and the outer
\* loop makes at most #length - 1 passes.
C20_SortOrders ==
    op = "sort" =>
        /\ \A i \in 0..(length - 2) : array[i] <= array[i + 1]
        /\ \A i \in 0..(length - 2) :
              at(array, length, i).ret <= at(array, length, i + 1).ret
        /\ oldLength >= 2 => steps.passes <= oldLength - 1
        /\ oldLength <= 1 => steps.passes = 0

C20_Witness ==
    /\ op = "sort" /\ oldLength = 3
    /\ oldArray[0] > oldArray[1] /\ oldArray[1] > oldArray[2]
    /\ array[0] < array[1] /\ array[1] < array[2]
    /\ steps.passes = 2

\* the prefix of a up to len is non-decreasing
Ordered(a, len) == \A i \in 0..(len - 2) : a[i] <= a[i + 1]

\* C21: on a prefix that is already non-decreasing sort makes one pass of
\* #length - 1 comparisons with no swap and no write, leaves array and
\* #length as they were, and a second sort would change nothing; on an empty
\* or single-element array it returns 0 with no comparison, read or write.
C21_SortSortedIdentity ==
    op = "sort" =>
        /\ (oldLength >= 2 /\ Ordered(oldArray, oldLength)) =>
              /\ steps = [passes |-> 1, comps |-> oldLength - 1, swaps |-> 0]
              /\ writes = {}
              /\ array = oldArray /\ length = oldLength
        /\ oldLength <= 1 =>
              /\ ret = 0 /\ steps = NoSteps /\ writes = {} /\ reads = {}
              /\ array = oldArray /\ length = oldLength
        /\ SortRun(array, length).arr = array

C21_Witness ==
    /\ op = "sort" /\ oldLength = 3
    /\ oldArray[0] < oldArray[1] /\ oldArray[1] < oldArray[2]
    /\ steps.passes = 1 /\ steps.comps = 2 /\ array = oldArray

C23_EmptyAggregates ==
    (op \in {"min", "max", "sum", "mean"} /\ isEmpty(oldLength)) =>
        /\ err = NoError
        /\ op \in {"min", "max", "sum"} => ret = 0
        /\ op = "mean" => ret.num = 0 /\ ret.den # 0
        /\ (op = "mean" /\ oldLength = 0) => ret = [num |-> 0, den |-> 1]

C23_Witness ==
    /\ op = "mean" /\ oldLength = 0 /\ ret.num = 0 /\ ret.den = 1
    /\ size = MaxSize /\ err = NoError

\* the sum of the first n elements of a, from the last one down
RECURSIVE PrefixSum(_, _)
PrefixSum(a, n) == IF n <= 0 THEN 0 ELSE a[n - 1] + PrefixSum(a, n - 1)

\* C24: on a non-empty array min returns an element of the prefix that is <=
\* every element of the prefix, max one that is >= every element, sum the sum
\* of the prefix elements; none of the three reads a key >= #length.
C24_Aggregates ==
    (op \in {"min", "max", "sum"} /\ oldLength >= 1) =>
        /\ err = NoError
        /\ reads \subseteq 0..(oldLength - 1)
        /\ op = "min" =>
              /\ \E i \in 0..(oldLength - 1) : oldArray[i] = ret
              /\ \A i \in 0..(oldLength - 1) : ret <= oldArray[i]
        /\ op = "max" =>
              /\ \E i \in 0..(oldLength - 1) : oldArray[i] = ret
              /\ \A i \in 0..(oldLength - 1) : ret >= oldArray[i]
        /\ op = "sum" => ret = PrefixSum(oldArray, oldLength)
        /\ \A k \in oldLength..(size - 1) : \A v \in Values :
              /\ min(Set(oldArray, k, v), oldLength) = min(oldArray, oldLength)
              /\ max(Set(oldArray, k, v), oldLength) = max(oldArray, oldLength)
              /\ sum(Set(oldArray, k, v), oldLength) = sum(oldArray, oldLength)

C24_Witness ==
    /\ op = "min" /\ oldLength = 3 /\ ret = oldArray[2]
    /\ oldArray[2] < oldArray[1] /\ oldArray[1] < oldArray[0]

\* C25: isEmpty is true exactly when the length getter returns 0, and
\* containsOne exactly when it returns 1.
C25_GettersAgree ==
    constructed =>
        /\ isEmpty(length) <=> length = 0
        /\ containsOne(length) <=> length = 1

\* C26: popHead on a non-empty array returns #length as it is after the
\* removal.
C26_PopHeadReturnsNewLength ==
    (op = "popHead" /\ oldLength >= 1) => ret = length

C28_ReverseMirrors ==
    op = "reverse" =>
        /\ \A i \in 0..(oldLength - 1) : array[i] = oldArray[oldLength - 1 - i]
        /\ length = oldLength
        /\ SameExcept(array, oldArray, 0..(oldLength - 1))
        /\ oldLength <= 1 => array = oldArray /\ writes = {} /\ reads = {}

C28_Witness ==
    /\ op = "reverse" /\ oldLength = 3 /\ Distinct(oldArray, oldLength)
    /\ array[0] = oldArray[2] /\ array[1] = oldArray[1] /\ array[2] = oldArray[0]

\* C29: every key from #length up to size - 1 holds 0.
C29_SuffixZeroed ==
    constructed => \A i \in 0..(size - 1) : i >= length => array[i] = 0

\* how many keys of the prefix of a hold v
Occurrences(a, len, v) == Cardinality({i \in 0..(len - 1) : a[i] = v})

\* C30: sort keeps #length, leaves every value as often in the prefix as it
\* was before, reads and writes only keys of the prefix, and leaves every key
\* outside the prefix as it was.
C30_SortPermutesPrefix ==
    op = "sort" =>
        /\ length = oldLength
        /\ \A v \in Values :
              Occurrences(array, length, v) = Occurrences(oldArray, oldLength, v)
        /\ writes \subseteq 0..(oldLength - 1)
        /\ reads \subseteq 0..(oldLength - 1)
        /\ SameExcept(array, oldArray, 0..(oldLength - 1))

C30_Witness ==
    /\ op = "sort" /\ oldLength = 3 /\ steps.swaps >= 1
    /\ oldArray[0] = oldArray[2] /\ oldArray[0] > oldArray[1]
    /\ array[0] < array[1] /\ array[1] = array[2]

====
